---- MODULE Spec2Model ----
(***************************************************************************)
(* Packed device views of nerfacc (data_spec_packed.cuh, two variants):    *)
(* PackedRaySegmentsSpec, PackedMultiScaleGridSpec, PackedRaysSpec,        *)
(* SingleRaySpec and AABBSpec, over the tensors of the host-side specs.    *)
(*                                                                         *)
(* The "later" variant is src/nerfacc/cuda/csrc/include/                     *)
(* data_spec_packed.cuh, the "earlier" one is src/unnamed/part_000; the    *)
(* definitions of the earlier variant carry the suffix Early.              *)
(***************************************************************************)
EXTENDS Integers, Sequences, FiniteSets, TLC

(***************************************************************************)
(* 64-bit quantities.  TLC's integers are 32 bits wide, so an int64_t is   *)
(* a little-endian sequence of 15-bit limbs without leading zero limbs     *)
(* (<<>> is 0).  Only non-negative 64-bit values occur: tensor sizes,      *)
(* element counts and indices.  An int32_t is a TLC integer.               *)
(***************************************************************************)
LimbBase == 2^15

RECURSIVE BigNorm(_)
BigNorm(a) ==
  IF a = <<>> THEN <<>>
  ELSE IF a[Len(a)] = 0 THEN BigNorm(SubSeq(a, 1, Len(a) - 1))
  ELSE a

RECURSIVE BigOf(_)
BigOf(n) ==
  IF n = 0 THEN <<>> ELSE <<n % LimbBase>> \o BigOf(n \div LimbBase)

Limb(a, i) == IF i <= Len(a) THEN a[i] ELSE 0

MaxOf(x, y) == IF x >= y THEN x ELSE y

RECURSIVE BigAddFrom(_, _, _, _)
BigAddFrom(a, b, i, carry) ==
  IF i > MaxOf(Len(a), Len(b))
  THEN (IF carry = 0 THEN <<>> ELSE <<carry>>)
  ELSE LET s == Limb(a, i) + Limb(b, i) + carry
       IN  <<s % LimbBase>> \o BigAddFrom(a, b, i + 1, s \div LimbBase)

BigAdd(a, b) == BigNorm(BigAddFrom(a, b, 1, 0))

RECURSIVE BigMulSmallFrom(_, _, _, _)
BigMulSmallFrom(a, k, i, carry) ==
  IF i > Len(a)
  THEN BigOf(carry)
  ELSE LET s == a[i] * k + carry
       IN  <<s % LimbBase>> \o BigMulSmallFrom(a, k, i + 1, s \div LimbBase)

\* a * k for one limb k (0 <= k < LimbBase)
BigMulSmall(a, k) == BigNorm(BigMulSmallFrom(a, k, 1, 0))

RECURSIVE BigMul(_, _)
BigMul(a, b) ==
  IF b = <<>> THEN <<>>
  ELSE BigAdd(BigMulSmall(a, b[1]),
              LET r == BigMul(a, Tail(b))
              IN  IF r = <<>> THEN <<>> ELSE <<0>> \o r)

RECURSIVE BigLessFrom(_, _, _)
BigLessFrom(a, b, i) ==
  IF i = 0 THEN FALSE
  ELSE IF a[i] # b[i] THEN a[i] < b[i]
  ELSE BigLessFrom(a, b, i - 1)

BigLess(a, b) ==
  IF Len(a) # Len(b) THEN Len(a) < Len(b) ELSE BigLessFrom(a, b, Len(a))

RECURSIVE BigModSmallFrom(_, _, _, _)
BigModSmallFrom(a, m, i, rem) ==
  IF i = 0 THEN rem
  ELSE BigModSmallFrom(a, m, i - 1, (rem * LimbBase + a[i]) % m)

\* a mod m for 0 < m < LimbBase
BigModSmall(a, m) == BigModSmallFrom(a, m, Len(a), 0)

Two31 == <<0, 0, 2>>
Two32 == <<0, 0, 4>>
Two30 == 2^30

\* whether a 64-bit value is representable in an int32_t
FitsInt32(a) == BigLess(a, Two31)

\* the value of a non-negative 64-bit quantity below 2^31 as an int32_t
BigToInt(a) == Limb(a, 1) + Limb(a, 2) * LimbBase + Limb(a, 3) * Two30

\* int64_t -> int32_t conversion: the low 32 bits, read as two's complement
Narrow32(a) ==
  LET low31 == Limb(a, 1) + Limb(a, 2) * LimbBase + (Limb(a, 3) % 2) * Two30
      bit31 == (Limb(a, 3) \div 2) % 2
  IN  IF bit31 = 1 THEN (low31 - Two30) - Two30 ELSE low31

\* int32_t -> int64_t for a non-negative value
Widen(n) == BigOf(n)

(***************************************************************************)
(* float (IEEE-754 binary32).  A value is a pair <<num, den>>: a finite    *)
(* non-zero value is num/den in lowest terms with den >= 1; <<0, 1>> is    *)
(* +0 and <<0, -1>> is -0; <<1, 0>> and <<-1, 0>> are the infinities and   *)
(* <<0, 0>> is NaN.  The values drawn below are dyadic with few            *)
(* significant bits, so every operation on them is exact in binary32 and   *)
(* no rounding step is modelled.                                           *)
(***************************************************************************)
RECURSIVE Gcd(_, _)
Gcd(a, b) == IF b = 0 THEN a ELSE Gcd(b, a % b)

AbsOf(i) == IF i < 0 THEN -i ELSE i

FNaN == <<0, 0>>
FInf(sign) == <<sign, 0>>
FZero(sign) == <<0, sign>>

\* the finite non-zero float sign * num / den
FFin(sign, num, den) ==
  LET g == Gcd(num, den) IN <<sign * (num \div g), den \div g>>

\* the float of an integer literal (0 is +0)
F(i) == IF i = 0 THEN FZero(1) ELSE FFin(IF i < 0 THEN -1 ELSE 1, AbsOf(i), 1)

\* the float i / den of a dyadic literal
FQ(i, den) == IF i = 0 THEN FZero(1) ELSE FFin(IF i < 0 THEN -1 ELSE 1, AbsOf(i), den)

IsNaN(a) == a = <<0, 0>>
IsInf(a) == a[2] = 0 /\ a[1] # 0
IsFinite(a) == a[2] # 0
IsZero(a) == a[2] # 0 /\ a[1] = 0

\* the sign bit, as 1 or -1
Sgn(a) == IF a[1] < 0 \/ a[2] < 0 THEN -1 ELSE 1

\* signed numerator and positive denominator of a finite value
Num(a) == a[1]
Den(a) == AbsOf(a[2])

\* a < b (false when either is NaN; -0 and +0 are equal)
FLt(a, b) ==
  /\ ~IsNaN(a)
  /\ ~IsNaN(b)
  /\ IF IsInf(a) THEN Sgn(a) = -1 /\ ~(IsInf(b) /\ Sgn(b) = -1)
     ELSE IF IsInf(b) THEN Sgn(b) = 1
     ELSE Num(a) * Den(b) < Num(b) * Den(a)

FGt(a, b) == FLt(b, a)

\* a <= b (false when either is NaN)
FLe(a, b) == ~IsNaN(a) /\ ~IsNaN(b) /\ ~FLt(b, a)

\* a - b
FSub(a, b) ==
  IF IsNaN(a) \/ IsNaN(b) THEN FNaN
  ELSE IF IsInf(a) THEN (IF IsInf(b) /\ Sgn(b) = Sgn(a) THEN FNaN ELSE a)
  ELSE IF IsInf(b) THEN FInf(-Sgn(b))
  ELSE LET num == Num(a) * Den(b) - Num(b) * Den(a)
       IN  IF num = 0
           THEN (IF IsZero(a) /\ IsZero(b) /\ Sgn(a) = -1 /\ Sgn(b) = 1
                 THEN FZero(-1) ELSE FZero(1))
           ELSE FFin(IF num < 0 THEN -1 ELSE 1, AbsOf(num), Den(a) * Den(b))

\* a * b
FMul(a, b) ==
  IF IsNaN(a) \/ IsNaN(b) THEN FNaN
  ELSE IF IsInf(a) \/ IsInf(b)
  THEN (IF IsZero(a) \/ IsZero(b) THEN FNaN ELSE FInf(Sgn(a) * Sgn(b)))
  ELSE IF IsZero(a) \/ IsZero(b) THEN FZero(Sgn(a) * Sgn(b))
  ELSE FFin(Sgn(a) * Sgn(b), AbsOf(Num(a)) * AbsOf(Num(b)), Den(a) * Den(b))

\* 1.0f / a: plain IEEE division, no test of the divisor
FRecip(a) ==
  IF IsNaN(a) THEN FNaN
  ELSE IF IsInf(a) THEN FZero(Sgn(a))
  ELSE IF IsZero(a) THEN FInf(Sgn(a))
  ELSE FFin(Sgn(a), Den(a), AbsOf(Num(a)))

\* fminf / fmaxf: the operand that is not NaN when one is
fminf(a, b) == IF IsNaN(a) THEN b ELSE IF IsNaN(b) THEN a ELSE IF FLt(b, a) THEN b ELSE a
fmaxf(a, b) == IF IsNaN(a) THEN b ELSE IF IsNaN(b) THEN a ELSE IF FLt(a, b) THEN b ELSE a

(***************************************************************************)
(* at::Tensor as the constructors use it: defined(), dim(), size(d),       *)
(* numel() and data_ptr<T>().  shape is a sequence of 64-bit sizes.  data  *)
(* is one period of the buffer's contents: element j of the buffer is      *)
(* data[(j mod Len(data)) + 1], so that a buffer of 2^31 elements has a    *)
(* finite description.                                                     *)
(***************************************************************************)
Undefined == [defined |-> FALSE, shape |-> <<>>, data |-> <<>>]
Tensor(shape, data) == [defined |-> TRUE, shape |-> shape, data |-> data]

\* Tensor::dim()
Dim(t) == Len(t.shape)

RECURSIVE BigProd(_)
BigProd(shape) ==
  IF shape = <<>> THEN BigOf(1) ELSE BigMul(shape[1], BigProd(Tail(shape)))

\* Tensor::numel()
Numel(t) == BigProd(t.shape)

\* Tensor::size(d) raises on an undefined tensor and on a dimension out of range
SizeThrows(t, d) == ~t.defined \/ d >= Dim(t) \/ d < -Dim(t)

\* Tensor::size(d), d counted from the end when negative
Size(t, d) == t.shape[(IF d < 0 THEN d + Dim(t) ELSE d) + 1]

\* Tensor::data_ptr<T>() raises on an undefined tensor
DataPtrThrows(t) == ~t.defined

\* element j (64-bit, non-negative, below numel) of a buffer
Elem(t, j) == t.data[BigModSmall(j, Len(t.data)) + 1]

\* the first n elements of a buffer, n a TLC integer
Prefix(t, n) == [j \in 1..n |-> t.data[((j - 1) % Len(t.data)) + 1]]

RECURSIVE SumSeq(_)
SumSeq(q) == IF q = <<>> THEN 0 ELSE q[1] + SumSeq(Tail(q))

VARIABLES
  variant,   \* which of the two variants of the header is compiled
  segs,      \* RaySegmentsSpec: the host tensors of a ray-segments collection
  grid,      \* MultiScaleGridSpec: data, occupied (binary), base_aabb
  rays,      \* RaysSpec: origins, dirs
  psegs,     \* the PackedRaySegmentsSpec built from segs
  pgrid,     \* the PackedMultiScaleGridSpec built from grid
  prays,     \* the PackedRaysSpec built from rays
  nthreads,  \* workers of the launch
  launched,  \* whether the kernel has been launched
  wk         \* per worker: position and the per-ray views it has built

vars == <<variant, segs, grid, rays, psegs, pgrid, prays, nthreads, launched, wk>>

(***************************************************************************)
(* PackedRaySegmentsSpec.  A pointer is the name of the host tensor it     *)
(* aliases, or "nullptr".                                                  *)
(***************************************************************************)
PtrOrNull(t, name) == IF t.defined THEN name ELSE "nullptr"

\* variation: the layout taken from the presence of edges alone
SegIsBatchedAnyRank(spec) == spec.edges.defined
\* is_batched(spec.edges.defined() ? spec.edges.dim() > 1 : false)
SegIsBatched(spec) == IF spec.edges.defined THEN Dim(spec.edges) > 1 ELSE FALSE

\* variation: size(0) in place of numel()
SegNEdgesRows(spec) == IF spec.edges.defined THEN Size(spec.edges, 0) ELSE <<>>
\* n_edges(spec.edges.defined() ? spec.edges.numel() : 0), an int64_t
SegNEdges(spec) == IF spec.edges.defined THEN Numel(spec.edges) ELSE <<>>

\* variation: n_rays taken from edges in place of chunk_cnts
SegNRaysFromEdges(spec) ==
  IF spec.edges.defined THEN Narrow32(Size(spec.edges, 0)) ELSE 0
\* n_rays(spec.chunk_cnts.defined() ? spec.chunk_cnts.size(0) : 0), an int32_t
SegNRays(spec) ==
  IF spec.chunk_cnts.defined THEN Narrow32(Size(spec.chunk_cnts, 0)) ELSE 0

\* n_edges_per_ray(spec.edges.defined() ? spec.edges.size(-1) : 0), an int32_t
SegNEdgesPerRay(spec) ==
  IF spec.edges.defined THEN Narrow32(Size(spec.edges, -1)) ELSE 0

\* variation: data_ptr called on every tensor without the defined() guard
SegThrowsIfAnyAbsent(spec) == \E f \in DOMAIN spec : ~spec[f].defined
\* the later constructor guards every access with defined(); only size() on a
\* tensor without dimensions raises
SegThrows(spec) ==
  \/ spec.edges.defined /\ SizeThrows(spec.edges, -1)
  \/ spec.chunk_cnts.defined /\ SizeThrows(spec.chunk_cnts, 0)

NoSegs ==
  [st |-> "none", edges |-> "nullptr", is_batched |-> FALSE,
   chunk_starts |-> "nullptr", chunk_cnts |-> "nullptr", ray_ids |-> "nullptr",
   is_left |-> "nullptr", is_right |-> "nullptr",
   n_edges |-> <<>>, n_rays |-> 0, n_edges_per_ray |-> 0]

ThrownSegs == [NoSegs EXCEPT !.st = "thrown"]

PackedRaySegmentsSpec(spec) ==
  IF SegThrows(spec) THEN ThrownSegs
  ELSE [st |-> "ok",
        edges |-> PtrOrNull(spec.edges, "edges"),
        is_batched |-> SegIsBatched(spec),
        chunk_starts |-> PtrOrNull(spec.chunk_starts, "chunk_starts"),
        chunk_cnts |-> PtrOrNull(spec.chunk_cnts, "chunk_cnts"),
        ray_ids |-> PtrOrNull(spec.ray_ids, "ray_ids"),
        is_left |-> PtrOrNull(spec.is_left, "is_left"),
        is_right |-> PtrOrNull(spec.is_right, "is_right"),
        n_edges |-> SegNEdges(spec),
        n_rays |-> SegNRays(spec),
        n_edges_per_ray |-> SegNEdgesPerRay(spec)]

\* earlier variant: chunk_cnts(spec.chunk_cnts.data_ptr<int64_t>()) and
\* n_rays(spec.chunk_cnts.size(0)) are not guarded by defined()
SegThrowsEarly(spec) ==
  DataPtrThrows(spec.chunk_cnts) \/ SizeThrows(spec.chunk_cnts, 0)

\* earlier variant: int64_t n_rays, no narrowing
SegNRaysEarly(spec) == Size(spec.chunk_cnts, 0)

NoSegsEarly ==
  [st |-> "none", edges |-> "nullptr", is_left |-> "nullptr",
   is_right |-> "nullptr", chunk_starts |-> "nullptr",
   chunk_cnts |-> "nullptr", ray_ids |-> "nullptr",
   n_edges |-> <<>>, n_rays |-> <<>>]

PackedRaySegmentsSpecEarly(spec) ==
  IF SegThrowsEarly(spec) THEN [NoSegsEarly EXCEPT !.st = "thrown"]
  ELSE [st |-> "ok",
        edges |-> PtrOrNull(spec.edges, "edges"),
        is_left |-> PtrOrNull(spec.is_left, "is_left"),
        is_right |-> PtrOrNull(spec.is_right, "is_right"),
        chunk_starts |-> PtrOrNull(spec.chunk_starts, "chunk_starts"),
        chunk_cnts |-> "chunk_cnts",
        ray_ids |-> PtrOrNull(spec.ray_ids, "ray_ids"),
        n_edges |-> SegNEdges(spec),
        n_rays |-> SegNRaysEarly(spec)]

(***************************************************************************)
(* PackedMultiScaleGridSpec                                                *)
(***************************************************************************)
\* variation: a constructor that also compares the shapes of occupied and data
GridThrowsIfShapesDiffer(spec) ==
  \/ \E f \in DOMAIN spec : DataPtrThrows(spec[f])
  \/ \E d \in 0..3 : SizeThrows(spec.data, d)
  \/ spec.occupied.shape # spec.data.shape
\* data_ptr on data, occupied (binary) and base_aabb, size(0..3) on data;
\* the shape of occupied is not read
GridThrows(spec) ==
  \/ DataPtrThrows(spec.data)
  \/ DataPtrThrows(spec.occupied)
  \/ DataPtrThrows(spec.base_aabb)
  \/ \E d \in 0..3 : SizeThrows(spec.data, d)

\* levels(spec.data.size(0)), an int32_t (int in the earlier variant)
GridLevels(spec) == Narrow32(Size(spec.data, 0))

\* resolution{(int32_t)spec.data.size(1), (int32_t)spec.data.size(2),
\*            (int32_t)spec.data.size(3)}
GridResolution(spec) ==
  <<Narrow32(Size(spec.data, 1)), Narrow32(Size(spec.data, 2)),
    Narrow32(Size(spec.data, 3))>>

NoGrid ==
  [st |-> "none", data |-> "nullptr", occupied |-> "nullptr",
   base_aabb |-> "nullptr", levels |-> 0, resolution |-> <<0, 0, 0>>]

PackedMultiScaleGridSpec(spec) ==
  IF GridThrows(spec) THEN [NoGrid EXCEPT !.st = "thrown"]
  ELSE [st |-> "ok", data |-> "data", occupied |-> "occupied",
        base_aabb |-> "base_aabb",
        levels |-> GridLevels(spec),
        resolution |-> GridResolution(spec)]

NoGridEarly ==
  [st |-> "none", data |-> "nullptr", binary |-> "nullptr",
   base_aabb |-> "nullptr", levels |-> 0, resolution |-> <<0, 0, 0>>]

\* earlier variant: the occupancy tensor is the field binary of the view
PackedMultiScaleGridSpecEarly(spec) ==
  IF GridThrows(spec) THEN [NoGridEarly EXCEPT !.st = "thrown"]
  ELSE [st |-> "ok", data |-> "data", binary |-> "occupied",
        base_aabb |-> "base_aabb",
        levels |-> GridLevels(spec),
        resolution |-> GridResolution(spec)]

(***************************************************************************)
(* PackedRaysSpec                                                          *)
(***************************************************************************)
RaysThrows(spec) ==
  \/ DataPtrThrows(spec.origins)
  \/ DataPtrThrows(spec.dirs)
  \/ SizeThrows(spec.origins, 0)

\* N(spec.origins.size(0)), an int32_t
RaysN(spec) == Narrow32(Size(spec.origins, 0))

\* earlier variant: const int64_t N
RaysNEarly(spec) == Size(spec.origins, 0)

NoRays == [st |-> "none", origins |-> "nullptr", dirs |-> "nullptr", N |-> 0]

PackedRaysSpec(spec) ==
  IF RaysThrows(spec) THEN [NoRays EXCEPT !.st = "thrown"]
  ELSE [st |-> "ok", origins |-> "origins", dirs |-> "dirs", N |-> RaysN(spec)]

NoRaysEarly ==
  [st |-> "none", origins |-> "nullptr", dirs |-> "nullptr", N |-> <<>>]

PackedRaysSpecEarly(spec) ==
  IF RaysThrows(spec) THEN [NoRaysEarly EXCEPT !.st = "thrown"]
  ELSE [st |-> "ok", origins |-> "origins", dirs |-> "dirs",
        N |-> RaysNEarly(spec)]

(***************************************************************************)
(* SingleRaySpec.  An index is [neg, off]: a negative int, or the offset   *)
(* off >= 0.  A load outside the buffer returns what that memory holds,    *)
(* oob[buffer][k]: any float.                                              *)
(***************************************************************************)
\* id * 3 + k exactly, as a 64-bit value
ExactIndex(id, k) == BigAdd(BigMulSmall(id, 3), BigOf(k))

\* rays.origins[id * 3 + k] with int32_t id: the arithmetic is int.  Signed
\* overflow is undefined; the build either wraps to 32 bits (ub = "wrap") or
\* forms the address in 64 bits (ub = "wide").
Index32(id, k, ub) ==
  LET e == ExactIndex(Widen(id), k)
  IN  IF FitsInt32(e) \/ ub = "wide" THEN [neg |-> FALSE, off |-> e]
      ELSE LET w == Narrow32(e)
           IN  IF w < 0 THEN [neg |-> TRUE, off |-> <<>>]
               ELSE [neg |-> FALSE, off |-> Widen(w)]

\* earlier variant, int64_t id: no value of id below numel overflows
Index64(id, k) == [neg |-> FALSE, off |-> ExactIndex(id, k)]

InBuffer(t, idx) == ~idx.neg /\ BigLess(idx.off, Numel(t))

Load(t, idx, oobv) == IF InBuffer(t, idx) THEN Elem(t, idx.off) ELSE oobv

NoRay ==
  [origin |-> <<F(0), F(0), F(0)>>, dir |-> <<F(0), F(0), F(0)>>,
   inv_dir |-> <<F(0), F(0), F(0)>>, tmin |-> F(0), tmax |-> F(0)]

\* variation: a reciprocal that tests the divisor and substitutes 0
InvDirGuarded(d) == IF IsZero(d) THEN F(0) ELSE FRecip(d)
\* 1.0f / rays.dirs[id * 3 + k]
InvDir(d) == FRecip(d)

\* the member initialisers, given the three indices id*3, id*3+1, id*3+2
RayFromIndices(rv, ix, tmin, tmax, oob) ==
  LET o == rays[rv.origins]
      d == rays[rv.dirs]
      d0 == Load(d, ix[1], oob.dirs[1])
      d1 == Load(d, ix[2], oob.dirs[2])
      d2 == Load(d, ix[3], oob.dirs[3])
  IN  [origin |-> <<Load(o, ix[1], oob.origins[1]),
                    Load(o, ix[2], oob.origins[2]),
                    Load(o, ix[3], oob.origins[3])>>,
       dir |-> <<d0, d1, d2>>,
       inv_dir |-> <<InvDir(d0), InvDir(d1), InvDir(d2)>>,
       tmin |-> tmin,
       tmax |-> tmax]

\* SingleRaySpec(PackedRaysSpec& rays, int32_t id, float tmin, float tmax)
SingleRaySpec(rv, id, tmin, tmax, ub, oob) ==
  RayFromIndices(rv, <<Index32(id, 0, ub), Index32(id, 1, ub), Index32(id, 2, ub)>>,
                 tmin, tmax, oob)

\* earlier variant: SingleRaySpec(PackedRaysSpec& rays, int64_t id, ...)
SingleRaySpecEarly(rv, id, tmin, tmax, oob) ==
  RayFromIndices(rv, <<Index64(id, 0), Index64(id, 1), Index64(id, 2)>>,
                 tmin, tmax, oob)

(***************************************************************************)
(* AABBSpec                                                                *)
(***************************************************************************)
NoBox == [min |-> <<F(0), F(0), F(0)>>, max |-> <<F(0), F(0), F(0)>>]

\* variation: max read from aabb[2..4]
AABBSpecOffByOne(t) ==
  [min |-> <<Elem(t, BigOf(0)), Elem(t, BigOf(1)), Elem(t, BigOf(2))>>,
   max |-> <<Elem(t, BigOf(2)), Elem(t, BigOf(3)), Elem(t, BigOf(4))>>]
\* AABBSpec(float *aabb): min{aabb[0..2]}, max{aabb[3..5]}
AABBSpec(t) ==
  [min |-> <<Elem(t, BigOf(0)), Elem(t, BigOf(1)), Elem(t, BigOf(2))>>,
   max |-> <<Elem(t, BigOf(3)), Elem(t, BigOf(4)), Elem(t, BigOf(5))>>]

\* AABBSpec(float3 min, float3 max)
AABBSpecCorners(min, max) ==
  [min |-> <<min[1], min[2], min[3]>>, max |-> <<max[1], max[2], max[3]>>]

(***************************************************************************)
(* Ray-box intersection (slab method) and the per-ray edge range.  Their   *)
(* code is in the kernels that include this header, not in the header;     *)
(* both follow sections 4.1 and 4.4 of the specification.                  *)
(***************************************************************************)
\* axis k: the candidates (min[k]-origin[k])*inv_dir[k] and
\* (max[k]-origin[k])*inv_dir[k], ordered so that entry <= exit
Slab(ray, box, k) ==
  LET t1 == FMul(FSub(box.min[k], ray.origin[k]), ray.inv_dir[k])
      t2 == FMul(FSub(box.max[k], ray.origin[k]), ray.inv_dir[k])
  IN  [entry |-> fminf(t1, t2), exit |-> fmaxf(t1, t2)]

RECURSIVE ClipAxes(_, _, _, _, _)
ClipAxes(ray, box, k, t_enter, t_exit) ==
  IF k > 3 THEN [t_enter |-> t_enter, t_exit |-> t_exit]
  ELSE LET sl == Slab(ray, box, k)
       IN  ClipAxes(ray, box, k + 1,
                    fmaxf(t_enter, sl.entry), fminf(t_exit, sl.exit))

\* the clipped interval and whether it is non-empty
ray_aabb_intersect(ray, box) ==
  LET r == ClipAxes(ray, box, 1, ray.tmin, ray.tmax)
  IN  [t_enter |-> r.t_enter, t_exit |-> r.t_exit,
       empty |-> FGt(r.t_enter, r.t_exit)]

NoHit == [t_enter |-> F(0), t_exit |-> F(0), empty |-> TRUE]

NoRange == [lo |-> <<>>, cnt |-> <<>>, batched |-> FALSE]

\* the edges of ray r in a view of the later variant: the fixed stride when
\* the view is batched, the chunk otherwise
SegRange(sv, r) ==
  IF sv.is_batched
  THEN [lo |-> BigMul(r, Widen(sv.n_edges_per_ray)),
        cnt |-> Widen(sv.n_edges_per_ray), batched |-> TRUE]
  ELSE [lo |-> BigOf(Elem(segs[sv.chunk_starts], r)),
        cnt |-> BigOf(Elem(segs[sv.chunk_cnts], r)), batched |-> FALSE]

\* the earlier variant knows the flattened layout only
SegRangeEarly(sv, r) ==
  [lo |-> BigOf(Elem(segs[sv.chunk_starts], r)),
   cnt |-> BigOf(Elem(segs[sv.chunk_cnts], r)), batched |-> FALSE]

\* what the caller guarantees before it asks for the range of ray r
SegRangeAllowed(sv, r) ==
  IF variant = "later" /\ sv.is_batched
  THEN /\ sv.n_edges_per_ray > 0
       /\ ~BigLess(sv.n_edges,
                   BigMul(BigAdd(r, BigOf(1)), Widen(sv.n_edges_per_ray)))
  ELSE /\ sv.chunk_cnts # "nullptr"
       /\ sv.chunk_starts # "nullptr"
       /\ BigLess(r, Size(segs[sv.chunk_cnts], 0))

(***************************************************************************)
(* Inputs.  Small tensors are enumerated up to the bounds; the sizes       *)
(* around 2^31 and 2^32 are the ones at which a 32-bit field and 32-bit    *)
(* index arithmetic differ from the 64-bit sizes of the tensors.           *)
(***************************************************************************)
MaxDim == 2       \* largest small tensor extent
MaxCnt == 2       \* largest per-ray edge count in chunk_cnts
NumWorkers == 2   \* workers of a launch

Variants == {"later", "earlier"}

Int32Max == BigOf((Two30 - 1) + Two30)

WideSizes == {Int32Max, Two31, BigAdd(Two32, BigOf(1))}

FloatPat == <<F(0), F(1), F(2)>>
BoolPat == <<TRUE, FALSE>>

\* shapes of segs.edges: [n_edges], [n_rays, n_edges_per_ray], one of rank 3
\* and the scalar, which has no dimension
EdgeShapes ==
  {<<BigOf(n)>> : n \in 0..(MaxDim * MaxCnt)}
  \cup {<<w>> : w \in WideSizes}
  \cup {<<BigOf(r), BigOf(e)>> : r \in 1..MaxDim, e \in 1..MaxDim}
  \cup {<<BigOf(1), Two31>>, <<Two31, BigOf(1)>>}
  \cup {<<BigOf(2), BigOf(1), BigOf(2)>>}
  \cup {<<>>}

EdgeTensors == {Undefined} \cup {Tensor(sh, FloatPat) : sh \in EdgeShapes}

CntSeqs == UNION {[1..n -> 0..MaxCnt] : n \in 0..MaxDim}

CntTensors ==
  {Undefined}
  \cup {Tensor(<<BigOf(Len(q))>>, q) : q \in CntSeqs}
  \cup {Tensor(<<Two31>>, <<1>>), Tensor(<<BigAdd(Two32, BigOf(1))>>, <<0>>)}
  \cup {Tensor(<<>>, <<1>>)}

\* chunk_starts as the producing pass writes it: the exclusive prefix sum
StartsOf(c) ==
  IF ~c.defined THEN Undefined
  ELSE IF Dim(c) = 0 \/ Len(c.data) = 0 \/ ~FitsInt32(c.shape[1])
  THEN Tensor(c.shape, <<0>>)
  ELSE Tensor(c.shape, [r \in 1..Len(c.data) |-> SumSeq(SubSeq(c.data, 1, r - 1))])

\* ray_ids, is_left, is_right have the shape of edges when they are given
LikeEdges(e, pat) == IF e.defined THEN Tensor(e.shape, pat) ELSE Undefined

\* which optional tensors are given: <<chunk_starts, ray_ids, is_left and is_right>>
Presence == {<<TRUE, TRUE, TRUE>>, <<FALSE, FALSE, FALSE>>, <<TRUE, FALSE, TRUE>>}

SegsOf(e, c, pr) ==
  [edges |-> e,
   chunk_cnts |-> c,
   chunk_starts |-> IF pr[1] THEN StartsOf(c) ELSE Undefined,
   ray_ids |-> IF pr[2] THEN LikeEdges(e, <<0>>) ELSE Undefined,
   is_left |-> IF pr[3] THEN LikeEdges(e, BoolPat) ELSE Undefined,
   is_right |-> IF pr[3] THEN LikeEdges(e, BoolPat) ELSE Undefined]

AllGiven == <<TRUE, TRUE, TRUE>>

FewEdges ==
  {Undefined, Tensor(<<BigOf(3)>>, FloatPat),
   Tensor(<<BigOf(2), BigOf(2)>>, FloatPat)}

FewCnts ==
  {Undefined, Tensor(<<BigOf(2)>>, <<1, 2>>), Tensor(<<Two31>>, <<1>>)}

\* every edges tensor against a few chunk_cnts and every chunk_cnts against a
\* few edges tensors; the pairs a producing pass leaves, edges holding
\* sum(chunk_cnts) elements; and the presence patterns of the optional tensors
SegInputs ==
  {SegsOf(e, c, AllGiven) : e \in EdgeTensors, c \in FewCnts}
  \cup {SegsOf(e, c, AllGiven) : e \in FewEdges, c \in CntTensors}
  \cup {SegsOf(Tensor(<<BigOf(SumSeq(q))>>, FloatPat),
                Tensor(<<BigOf(Len(q))>>, q), AllGiven) : q \in CntSeqs}
  \cup {SegsOf(e, c, pr) :
          e \in FewEdges, c \in {Undefined, Tensor(<<BigOf(2)>>, <<1, 2>>)},
          pr \in Presence}

DefaultSegs ==
  [edges |-> Tensor(<<BigOf(3)>>, FloatPat),
   chunk_cnts |-> Tensor(<<BigOf(2)>>, <<1, 2>>),
   chunk_starts |-> Tensor(<<BigOf(2)>>, <<0, 1>>),
   ray_ids |-> Tensor(<<BigOf(3)>>, <<0, 1, 1>>),
   is_left |-> Tensor(<<BigOf(3)>>, BoolPat),
   is_right |-> Tensor(<<BigOf(3)>>, BoolPat)]

BatchedSegs ==
  [edges |-> Tensor(<<BigOf(2), BigOf(2)>>, FloatPat),
   chunk_cnts |-> Undefined, chunk_starts |-> Undefined, ray_ids |-> Undefined,
   is_left |-> Tensor(<<BigOf(2), BigOf(2)>>, BoolPat),
   is_right |-> Tensor(<<BigOf(2), BigOf(2)>>, BoolPat)]

\* base_aabb: (min3, max3)
ExampleBoxes ==
  {<<F(2), F(-1), F(-1), F(5), F(1), F(1)>>,
   <<F(2), F(5), F(5), F(3), F(6), F(6)>>}

Boxes ==
  ExampleBoxes \cup
  {<<F(-1), F(-1), F(-1), F(1), F(1), F(1)>>,
   <<F(0), F(0), F(0), F(2), F(2), F(2)>>,
   <<F(1), F(0), F(-2), F(1), F(4), F(2)>>}

UnitBox == <<F(-1), F(-1), F(-1), F(1), F(1), F(1)>>

GridShapes ==
  {<<BigOf(l), BigOf(a), BigOf(b), BigOf(c)>> :
     l \in 1..MaxDim, a \in 1..MaxDim, b \in 1..MaxDim, c \in 1..MaxDim}
  \cup {<<BigOf(1), Two31, BigOf(1), BigOf(1)>>,
        <<BigAdd(Two32, BigOf(2)), BigOf(1), BigOf(1), BigOf(1)>>,
        <<BigOf(2), BigOf(2), BigOf(2)>>}

\* the shapes of occupied tried against a data shape: the same one, the two
\* outer extents exchanged, and the flattened one
OccupiedShapes(sh) ==
  {sh, <<sh[2], sh[1]>> \o SubSeq(sh, 3, Len(sh)), <<BigProd(sh)>>}

GridInputs ==
  UNION {{[data |-> Tensor(sh, FloatPat),
           occupied |-> Tensor(osh, BoolPat),
           base_aabb |-> Tensor(<<BigOf(6)>>, UnitBox)]
          : osh \in OccupiedShapes(sh)} : sh \in GridShapes}

DefaultGrid ==
  [data |-> Tensor(<<BigOf(1), BigOf(2), BigOf(2), BigOf(2)>>, FloatPat),
   occupied |-> Tensor(<<BigOf(1), BigOf(2), BigOf(2), BigOf(2)>>, BoolPat),
   base_aabb |-> Tensor(<<BigOf(6)>>, UnitBox)]

GridWithBox(b) == [DefaultGrid EXCEPT !.base_aabb = Tensor(<<BigOf(6)>>, b)]

AbsentGrids ==
  {[DefaultGrid EXCEPT ![f] = Undefined] : f \in {"data", "occupied", "base_aabb"}}

\* contents of origins and dirs; the period 7 is prime to the stride 3
OriginPats ==
  {<<F(0), F(1), F(-2), FQ(1, 2), F(3), F(-1), F(5)>>}

DirPats ==
  {<<F(1), FZero(1), FZero(-1), F(-2), FQ(1, 2), FQ(-1, 4), F(4)>>,
   <<FInf(1), FNaN, FInf(-1), F(1), FZero(-1), F(2), F(-1)>>}

RayCounts ==
  {BigOf(n) : n \in 1..MaxDim}
  \cup {BigOf(715827882), BigOf(715827883), BigOf(1431655767)}
  \cup WideSizes

RaysInputs ==
  {[origins |-> Tensor(<<n, BigOf(3)>>, o), dirs |-> Tensor(<<n, BigOf(3)>>, d)]
   : n \in RayCounts, o \in OriginPats, d \in DirPats}

ExampleRays ==
  [origins |-> Tensor(<<BigOf(2), BigOf(3)>>,
                      <<F(0), F(0), F(0), F(0), F(0), F(0)>>),
   dirs |-> Tensor(<<BigOf(2), BigOf(3)>>,
                   <<F(1), F(0), F(0), F(0), F(1), F(0)>>)]

SkewRays ==
  [origins |-> Tensor(<<BigOf(2), BigOf(3)>>,
                      <<F(1), F(0), F(-1), F(0), F(3), F(0)>>),
   dirs |-> Tensor(<<BigOf(2), BigOf(3)>>,
                   <<F(-2), FQ(1, 2), FZero(-1), F(1), F(-1), F(4)>>)]

AbsentRays ==
  {[ExampleRays EXCEPT ![f] = Undefined] : f \in {"origins", "dirs"}}

\* the indices a worker may be given
CandidateIds ==
  {BigOf(n) : n \in 0..(MaxDim - 1)}
  \cup {BigOf(715827881), BigOf(715827882), BigOf(1431655766), Int32Max, Two31}

\* the caller-supplied windows [tmin, tmax]
TWindows == {<<F(0), F(10)>>, <<F(1), F(4)>>}

OobVals == {FZero(-1), F(4)}
NoOob == [origins |-> <<F(0), F(0), F(0)>>, dirs |-> <<F(0), F(0), F(0)>>]
AllOob == [origins : [1..3 -> OobVals], dirs : [1..3 -> OobVals]]

NoWorker ==
  [pc |-> "start", id |-> <<>>, win |-> <<F(0), F(0)>>, ub |-> "wrap",
   oob |-> NoOob, ray |-> NoRay,
   aabb |-> NoBox, isect |-> NoHit, seg |-> NoRange]

InitCommon ==
  /\ variant \in Variants
  /\ psegs = (IF variant = "later" THEN NoSegs ELSE NoSegsEarly)
  /\ pgrid = (IF variant = "later" THEN NoGrid ELSE NoGridEarly)
  /\ prays = (IF variant = "later" THEN NoRays ELSE NoRaysEarly)
  /\ launched = FALSE
  /\ wk = [w \in 1..NumWorkers |-> NoWorker]

InitSegs ==
  /\ segs \in SegInputs
  /\ grid = DefaultGrid
  /\ rays = ExampleRays
  /\ nthreads = 1

InitGrid ==
  /\ segs = DefaultSegs
  /\ grid \in GridInputs \cup AbsentGrids
  /\ rays = ExampleRays
  /\ nthreads = 1

InitRays ==
  /\ segs = DefaultSegs
  /\ grid = DefaultGrid
  /\ rays \in RaysInputs \cup AbsentRays
  /\ nthreads = 1

InitBoxes ==
  /\ segs = DefaultSegs
  /\ grid \in {GridWithBox(b) : b \in Boxes}
  /\ rays \in {ExampleRays, SkewRays}
  /\ nthreads = 1

InitLaunch ==
  /\ segs \in {DefaultSegs, BatchedSegs}
  /\ grid \in {GridWithBox(b) : b \in ExampleBoxes}
  /\ rays = ExampleRays
  /\ nthreads = NumWorkers

Init ==
  InitCommon /\ (InitSegs \/ InitGrid \/ InitRays \/ InitBoxes \/ InitLaunch)

(***************************************************************************)
(* The host builds the three views, in any order, and launches the kernel  *)
(* when none of the constructors has raised.                               *)
(***************************************************************************)
PackSegs ==
  /\ variant = "later"
  /\ ~launched
  /\ psegs.st = "none"
  /\ psegs' = PackedRaySegmentsSpec(segs)
  /\ UNCHANGED <<variant, segs, grid, rays, pgrid, prays, nthreads, launched, wk>>

PackSegsEarly ==
  /\ variant = "earlier"
  /\ ~launched
  /\ psegs.st = "none"
  /\ psegs' = PackedRaySegmentsSpecEarly(segs)
  /\ UNCHANGED <<variant, segs, grid, rays, pgrid, prays, nthreads, launched, wk>>

PackGrid ==
  /\ variant = "later"
  /\ ~launched
  /\ pgrid.st = "none"
  /\ pgrid' = PackedMultiScaleGridSpec(grid)
  /\ UNCHANGED <<variant, segs, grid, rays, psegs, prays, nthreads, launched, wk>>

PackGridEarly ==
  /\ variant = "earlier"
  /\ ~launched
  /\ pgrid.st = "none"
  /\ pgrid' = PackedMultiScaleGridSpecEarly(grid)
  /\ UNCHANGED <<variant, segs, grid, rays, psegs, prays, nthreads, launched, wk>>

PackRays ==
  /\ variant = "later"
  /\ ~launched
  /\ prays.st = "none"
  /\ prays' = PackedRaysSpec(rays)
  /\ UNCHANGED <<variant, segs, grid, rays, psegs, pgrid, nthreads, launched, wk>>

PackRaysEarly ==
  /\ variant = "earlier"
  /\ ~launched
  /\ prays.st = "none"
  /\ prays' = PackedRaysSpecEarly(rays)
  /\ UNCHANGED <<variant, segs, grid, rays, psegs, pgrid, nthreads, launched, wk>>

Launch ==
  /\ ~launched
  /\ psegs.st = "ok"
  /\ pgrid.st = "ok"
  /\ prays.st = "ok"
  /\ launched' = TRUE
  /\ UNCHANGED <<variant, segs, grid, rays, psegs, pgrid, prays, nthreads, wk>>

(***************************************************************************)
(* A worker: SingleRaySpec for its ray, AABBSpec of the grid's base box,   *)
(* the intersection, then the range of its ray in the segments view.       *)
(***************************************************************************)
\* ray indices below the number of rays in the buffer
RayIds == {i \in CandidateIds : BigLess(i, Size(rays.origins, 0))}

\* whether id * 3 + 2 leaves the range of int
Overflows32(id) == ~FitsInt32(ExactIndex(id, 2))

UbChoices(id) == IF Overflows32(id) THEN {"wrap", "wide"} ELSE {"wrap"}

\* the memory outside the buffers matters only to a load that leaves them
OobChoices(id, ub) ==
  IF \E k \in 0..2 : ~InBuffer(rays.origins, Index32(BigToInt(id), k, ub))
  THEN AllOob ELSE {NoOob}

\* worker w constructs SingleRaySpec(rays, id, tmin, tmax) into its own record
RayBuilt(w) ==
  /\ variant = "later"
  /\ launched
  /\ wk[w].pc = "start"
  /\ \E id \in {i \in RayIds : FitsInt32(i)}, win \in TWindows :
       \E ub \in UbChoices(id) :
         \E oob \in OobChoices(id, ub) :
           wk' = [wk EXCEPT ![w] =
                    [@ EXCEPT !.pc = "ray", !.id = id, !.win = win,
                              !.ub = ub, !.oob = oob,
                              !.ray = SingleRaySpec(prays, BigToInt(id),
                                                    win[1], win[2], ub, oob)]]

\* variation: a constructor that stores the reciprocals back into rays.dirs
RayStepStoringInverse(w) ==
  /\ RayBuilt(w)
  /\ rays' = [rays EXCEPT !.dirs.data = [k \in DOMAIN @ |-> FRecip(@[k])]]
  /\ UNCHANGED <<variant, segs, grid, psegs, pgrid, prays, nthreads, launched>>
\* the constructor only loads from rays.origins and rays.dirs
RayStep(w) ==
  /\ RayBuilt(w)
  /\ UNCHANGED <<variant, segs, grid, rays, psegs, pgrid, prays, nthreads, launched>>

RayStepEarly(w) ==
  /\ variant = "earlier"
  /\ launched
  /\ wk[w].pc = "start"
  /\ \E id \in RayIds, win \in TWindows :
       wk' = [wk EXCEPT ![w] =
                [@ EXCEPT !.pc = "ray", !.id = id, !.win = win,
                          !.ray = SingleRaySpecEarly(prays, id, win[1], win[2],
                                                     NoOob)]]
  /\ UNCHANGED <<variant, segs, grid, rays, psegs, pgrid, prays, nthreads, launched>>

BoxStep(w) ==
  /\ launched
  /\ wk[w].pc = "ray"
  /\ LET base == AABBSpec(grid[pgrid.base_aabb])
     IN  wk' = [wk EXCEPT ![w] =
                  [@ EXCEPT !.pc = "box",
                            !.aabb = AABBSpecCorners(base.min, base.max)]]
  /\ UNCHANGED <<variant, segs, grid, rays, psegs, pgrid, prays, nthreads, launched>>

IsectStep(w) ==
  /\ launched
  /\ wk[w].pc = "box"
  /\ wk' = [wk EXCEPT ![w] =
              [@ EXCEPT !.pc = "hit",
                        !.isect = ray_aabb_intersect(wk[w].ray, wk[w].aabb)]]
  /\ UNCHANGED <<variant, segs, grid, rays, psegs, pgrid, prays, nthreads, launched>>

SegStep(w) ==
  /\ variant = "later"
  /\ launched
  /\ wk[w].pc = "hit"
  /\ SegRangeAllowed(psegs, wk[w].id)
  /\ wk' = [wk EXCEPT ![w] =
              [@ EXCEPT !.pc = "done", !.seg = SegRange(psegs, wk[w].id)]]
  /\ UNCHANGED <<variant, segs, grid, rays, psegs, pgrid, prays, nthreads, launched>>

SegStepEarly(w) ==
  /\ variant = "earlier"
  /\ launched
  /\ wk[w].pc = "hit"
  /\ SegRangeAllowed(psegs, wk[w].id)
  /\ wk' = [wk EXCEPT ![w] =
              [@ EXCEPT !.pc = "done", !.seg = SegRangeEarly(psegs, wk[w].id)]]
  /\ UNCHANGED <<variant, segs, grid, rays, psegs, pgrid, prays, nthreads, launched>>

Next ==
  \/ PackSegs
  \/ PackSegsEarly
  \/ PackGrid
  \/ PackGridEarly
  \/ PackRays
  \/ PackRaysEarly
  \/ Launch
  \/ \E w \in 1..nthreads : RayStep(w)
  \/ \E w \in 1..nthreads : RayStepEarly(w)
  \/ \E w \in 1..nthreads : BoxStep(w)
  \/ \E w \in 1..nthreads : IsectStep(w)
  \/ \E w \in 1..nthreads : SegStep(w)
  \/ \E w \in 1..nthreads : SegStepEarly(w)

Spec == Init /\ [][Next]_vars

(***************************************************************************)
(* Properties                                                              *)
(***************************************************************************)
Workers == 1..NumWorkers

\* worker w has constructed its SingleRaySpec
HasRay(w) == wk[w].pc # "start"

\* worker w has intersected its ray with the box
HasHit(w) == wk[w].pc \in {"hit", "done"}

\* an int32_t field n holds the 64-bit value b
IntEqBig(n, b) == n >= 0 /\ Widen(n) = b

\* |n| of an int32_t as a 64-bit value (-2^31 included)
BigAbs(n) == IF n >= 0 THEN Widen(n) ELSE BigAdd(Widen(-(n + 1)), BigOf(1))

\* the non-negative 64-bit value big is the signed product a * b
ProductIs(big, a, b) ==
  IF a = 0 \/ b = 0 THEN big = <<>>
  ELSE ((a < 0) = (b < 0)) /\ big = BigMul(BigAbs(a), BigAbs(b))

\* sum of the first n elements of a counts buffer, n a 64-bit value
SumCounts(t, n) ==
  IF n = <<>> THEN <<>>
  ELSE IF Len(t.data) = 1 THEN BigMulSmall(n, t.data[1])
  ELSE BigOf(SumSeq(Prefix(t, BigToInt(n))))

\* the rays r in [0, n_rays) of a view: none when n_rays is not positive
ViewNRays(sv) ==
  IF variant = "later"
  THEN (IF sv.n_rays > 0 THEN Widen(sv.n_rays) ELSE <<>>)
  ELSE sv.n_rays

\* sum of chunk_cnts[r] over r in [0, n_rays), read through the view
ViewSumCounts(sv) ==
  IF sv.chunk_cnts = "nullptr" THEN <<>>
  ELSE SumCounts(segs[sv.chunk_cnts], ViewNRays(sv))

\* the view is of the flattened layout (the only one of the earlier variant)
IsFlattened(sv) == variant = "earlier" \/ ~sv.is_batched

SegFields ==
  {"edges", "chunk_starts", "chunk_cnts", "ray_ids", "is_left", "is_right"}

\* element id*3 + k of a rays buffer, k = 0, 1, 2
RayElem(t, id, k) == Elem(t, ExactIndex(id, k))

\* C1: for every worker given an index i with 0 <= i < N, the single-ray view
\* holds origin = origins[3i..3i+2] and dir = dirs[3i..3i+2] exactly, and
\* tmin, tmax are the caller's values unchanged.
C1_RayViewExact ==
  \A w \in Workers :
    HasRay(w) =>
      /\ \A k \in 1..3 :
           /\ wk[w].ray.origin[k] = RayElem(rays.origins, wk[w].id, k - 1)
           /\ wk[w].ray.dir[k] = RayElem(rays.dirs, wk[w].id, k - 1)
      /\ wk[w].ray.tmin = wk[w].win[1]
      /\ wk[w].ray.tmax = wk[w].win[2]

\* C2: for a box with min[k] <= max[k] whose slab bounds are numbers, the
\* result [t_enter, t_exit] is the intersection of [tmin, tmax] with the three
\* slab intervals (t_enter is the greatest lower bound among tmin and the slab
\* entries, t_exit the least upper bound among tmax and the slab exits, every
\* slab has entry <= exit), and it is reported empty exactly when
\* t_enter > t_exit; the ray origin (0,0,0), dir (1,0,0) with window [0,10]
\* gives [2,5] for the box (2,-1,-1)-(5,1,1) and an empty interval for the box
\* (2,5,5)-(3,6,6).
C2_Slabs(w) ==
  <<Slab(wk[w].ray, wk[w].aabb, 1), Slab(wk[w].ray, wk[w].aabb, 2),
    Slab(wk[w].ray, wk[w].aabb, 3)>>

C2_Lowers(w, sl) == {wk[w].ray.tmin} \cup {sl[k].entry : k \in 1..3}

C2_Uppers(w, sl) == {wk[w].ray.tmax} \cup {sl[k].exit : k \in 1..3}

C2_BoxOrdered(w) == \A k \in 1..3 : FLe(wk[w].aabb.min[k], wk[w].aabb.max[k])

C2_Applies(w, sl) ==
  /\ C2_BoxOrdered(w)
  /\ \A b \in C2_Lowers(w, sl) \cup C2_Uppers(w, sl) : ~IsNaN(b)

C2_ExampleRay(w) ==
  /\ rays = ExampleRays
  /\ wk[w].id = BigOf(0)
  /\ wk[w].win = <<F(0), F(10)>>

C2_HitBox == grid.base_aabb.data = <<F(2), F(-1), F(-1), F(5), F(1), F(1)>>

C2_MissBox == grid.base_aabb.data = <<F(2), F(5), F(5), F(3), F(6), F(6)>>

C2_SlabIntersection ==
  \A w \in Workers :
    HasHit(w) =>
      LET r == wk[w].isect
          sl == C2_Slabs(w)
      IN  /\ C2_Applies(w, sl) =>
               /\ \A k \in 1..3 : FLe(sl[k].entry, sl[k].exit)
               /\ r.t_enter \in C2_Lowers(w, sl)
               /\ \A b \in C2_Lowers(w, sl) : FLe(b, r.t_enter)
               /\ r.t_exit \in C2_Uppers(w, sl)
               /\ \A b \in C2_Uppers(w, sl) : FLe(r.t_exit, b)
               /\ r.empty <=> FGt(r.t_enter, r.t_exit)
          /\ (C2_ExampleRay(w) /\ C2_HitBox) =>
               r = [t_enter |-> F(2), t_exit |-> F(5), empty |-> FALSE]
          /\ (C2_ExampleRay(w) /\ C2_MissBox) => r.empty

\* a worker has intersected the example ray with the box (2,-1,-1)-(5,1,1)
\* and holds [2, 5]
C2_Witness ==
  \E w \in Workers :
    /\ HasHit(w)
    /\ C2_ExampleRay(w)
    /\ C2_HitBox
    /\ C2_Applies(w, C2_Slabs(w))
    /\ wk[w].isect.t_enter = F(2)
    /\ wk[w].isect.t_exit = F(5)

\* C3 (as stated): every batched view has n_edges = n_rays * n_edges_per_ray,
\* with the n_rays and n_edges_per_ray the view stores.
C3_BatchedEdgeCount ==
  (variant = "later" /\ psegs.st = "ok" /\ psegs.is_batched) =>
    ProductIs(psegs.n_edges, psegs.n_rays, psegs.n_edges_per_ray)

\* C3 (amended): in a batched view n_edges is the element count of edges and
\* n_edges_per_ray its last extent (when that is below 2^31); n_rays is not
\* taken from edges: it is the length of chunk_cnts (when below 2^31), and 0
\* when chunk_cnts is absent.  n_edges = n_rays * n_edges_per_ray holds when
\* edges has shape [R, E], chunk_cnts is given with R entries, and R and E
\* are below 2^31.
C3_BatchedCounts ==
  (variant = "later" /\ psegs.st = "ok" /\ psegs.is_batched) =>
    /\ psegs.n_edges = Numel(segs.edges)
    /\ FitsInt32(Size(segs.edges, -1)) =>
         IntEqBig(psegs.n_edges_per_ray, Size(segs.edges, -1))
    /\ ~segs.chunk_cnts.defined => psegs.n_rays = 0
    /\ (segs.chunk_cnts.defined /\ FitsInt32(Size(segs.chunk_cnts, 0))) =>
         IntEqBig(psegs.n_rays, Size(segs.chunk_cnts, 0))
    /\ ( /\ Dim(segs.edges) = 2
         /\ segs.chunk_cnts.defined
         /\ Size(segs.chunk_cnts, 0) = Size(segs.edges, 0)
         /\ FitsInt32(Size(segs.edges, 0))
         /\ FitsInt32(Size(segs.edges, 1)) ) =>
         ProductIs(psegs.n_edges, psegs.n_rays, psegs.n_edges_per_ray)

\* a batched view over edges of shape [2, 2] built with a chunk_cnts of 2 entries
C3_Witness ==
  /\ variant = "later"
  /\ psegs.st = "ok"
  /\ psegs.is_batched
  /\ segs.chunk_cnts.defined
  /\ psegs.n_rays = 2
  /\ psegs.n_edges_per_ray = 2
  /\ psegs.n_edges = BigOf(4)

\* C4 (as stated): in every flattened view the sum of chunk_cnts[r] over the
\* rays r in [0, n_rays) equals n_edges.
C4_FlattenedCountsSum ==
  (psegs.st = "ok" /\ IsFlattened(psegs)) =>
    ViewSumCounts(psegs) = psegs.n_edges

\* the tensors as the producing pass leaves them once edges is allocated:
\* edges is present, of rank 1, with sum(chunk_cnts) elements
C4_Produced ==
  /\ segs.edges.defined
  /\ Dim(segs.edges) = 1
  /\ segs.chunk_cnts.defined
  /\ Dim(segs.chunk_cnts) = 1
  /\ variant = "later" => FitsInt32(Size(segs.chunk_cnts, 0))
  /\ Numel(segs.edges) = SumCounts(segs.chunk_cnts, Size(segs.chunk_cnts, 0))

\* C4 (amended): the constructor copies n_edges from edges and n_rays from
\* chunk_cnts without relating them.  The sum of chunk_cnts[r] over
\* [0, n_rays) equals n_edges in a flattened view whose edges tensor is present
\* with sum(chunk_cnts) elements (and, in the later variant, whose chunk_cnts
\* has fewer than 2^31 entries); a view built while edges is absent has
\* n_edges = 0 whatever the counts are.
C4_FlattenedSumWhenProduced ==
  (psegs.st = "ok" /\ IsFlattened(psegs)) =>
    /\ C4_Produced => ViewSumCounts(psegs) = psegs.n_edges
    /\ ~segs.edges.defined => psegs.n_edges = BigOf(0)

\* a flattened view of the later variant over 3 edges in chunks of 1 and 2
C4_Witness ==
  /\ variant = "later"
  /\ psegs.st = "ok"
  /\ ~psegs.is_batched
  /\ C4_Produced
  /\ segs.chunk_cnts.data = <<1, 2>>
  /\ psegs.n_edges = BigOf(3)
  /\ ViewSumCounts(psegs) = BigOf(3)

\* C5: is_batched is fixed by the constructor - true exactly when edges is
\* present with more than one dimension - it never changes while the view
\* lives, and every range a worker computes uses the layout the view holds.
C5_Layout ==
  (variant = "later" /\ psegs.st = "ok") =>
    /\ psegs.is_batched = (segs.edges.defined /\ Dim(segs.edges) > 1)
    /\ \A w \in Workers :
         wk[w].pc = "done" => wk[w].seg.batched = psegs.is_batched

C5_LayoutKept ==
  (variant = "later" /\ psegs.st = "ok") =>
    (psegs'.st = "ok" /\ psegs'.is_batched = psegs.is_batched)

C5_LayoutDecidedOnce == []C5_Layout /\ [][C5_LayoutKept]_vars

\* two workers have each read their range from a batched view
C5_Witness ==
  /\ variant = "later"
  /\ psegs.st = "ok"
  /\ psegs.is_batched
  /\ \A w \in Workers : wk[w].pc = "done" /\ wk[w].seg.batched

\* C6 (as stated): construction raises when edges is absent, or when
\* chunk_cnts is absent for the flattened layout; with both present it
\* succeeds whichever of is_left, is_right, chunk_starts, ray_ids is absent.
C6_MissingRequiredFieldFails ==
  psegs.st # "none" =>
    /\ ( \/ ~segs.edges.defined
         \/ ~segs.chunk_cnts.defined /\ ~(Dim(segs.edges) > 1) ) =>
         psegs.st = "thrown"
    /\ ( /\ segs.edges.defined
         /\ Dim(segs.edges) > 0
         /\ segs.chunk_cnts.defined
         /\ Dim(segs.chunk_cnts) > 0 ) => psegs.st = "ok"

\* C6 (amended): no absent tensor makes the later constructor raise: an
\* absent tensor gives a null pointer, absent edges gives n_edges = 0,
\* n_edges_per_ray = 0 and is_batched = false, absent chunk_cnts gives
\* n_rays = 0; it raises only on a present edges or chunk_cnts without
\* dimensions.  The earlier constructor raises exactly when chunk_cnts is
\* absent or without dimensions; edges and the other four may be absent.
C6_AbsentFieldsGiveNull ==
  psegs.st # "none" =>
    /\ psegs.st = "thrown" <=>
         IF variant = "later"
         THEN \/ segs.edges.defined /\ Dim(segs.edges) = 0
              \/ segs.chunk_cnts.defined /\ Dim(segs.chunk_cnts) = 0
         ELSE ~segs.chunk_cnts.defined \/ Dim(segs.chunk_cnts) = 0
    /\ psegs.st = "ok" =>
         /\ \A f \in SegFields : (psegs[f] = "nullptr") <=> ~segs[f].defined
         /\ ~segs.edges.defined => psegs.n_edges = BigOf(0)
         /\ (variant = "later" /\ ~segs.edges.defined) =>
              (psegs.n_edges_per_ray = 0 /\ ~psegs.is_batched)
         /\ (variant = "later" /\ ~segs.chunk_cnts.defined) => psegs.n_rays = 0

\* a view of the later variant built with edges and chunk_cnts both absent
C6_Witness ==
  /\ variant = "later"
  /\ psegs.st = "ok"
  /\ ~segs.edges.defined
  /\ ~segs.chunk_cnts.defined
  /\ psegs.edges = "nullptr"
  /\ psegs.chunk_cnts = "nullptr"

\* C7 (as stated): every grid view that is built has occupied and data of the
\* identical shape; a grid whose occupied shape differs is rejected.
C7_OccupiedShapeChecked ==
  pgrid.st = "ok" => grid.occupied.shape = grid.data.shape

\* C7 (amended): the constructor reads the shape of data only: levels and
\* resolution are the extents 0 and 1..3 of data (each when below 2^31), the
\* shape of occupied is neither read nor compared, and construction raises
\* exactly when data, occupied or base_aabb is absent or data has fewer than
\* four dimensions.
C7_GridFromDataShape ==
  pgrid.st # "none" =>
    /\ pgrid.st = "thrown" <=>
         \/ ~grid.data.defined
         \/ ~grid.occupied.defined
         \/ ~grid.base_aabb.defined
         \/ Dim(grid.data) < 4
    /\ pgrid.st = "ok" =>
         /\ FitsInt32(Size(grid.data, 0)) =>
              IntEqBig(pgrid.levels, Size(grid.data, 0))
         /\ \A k \in 1..3 :
              FitsInt32(Size(grid.data, k)) =>
                IntEqBig(pgrid.resolution[k], Size(grid.data, k))

\* a grid view built over an occupied tensor whose shape is not that of data
C7_Witness ==
  /\ pgrid.st = "ok"
  /\ grid.occupied.shape # grid.data.shape
  /\ IntEqBig(pgrid.levels, Size(grid.data, 0))

\* C8: in every interleaving no step of a worker changes the rays, segments
\* or grid buffers, a step changes the record of one worker only, and what a
\* worker holds for its ray is what the constructors give for that ray alone.
C8_Alone(w) ==
  LET me == wk[w]
      ray == IF variant = "later"
             THEN SingleRaySpec(prays, BigToInt(me.id), me.win[1], me.win[2],
                                me.ub, me.oob)
             ELSE SingleRaySpecEarly(prays, me.id, me.win[1], me.win[2], NoOob)
      base == AABBSpec(grid[pgrid.base_aabb])
      box == AABBSpecCorners(base.min, base.max)
  IN  /\ HasRay(w) => me.ray = ray
      /\ me.pc \in {"box", "hit", "done"} => me.aabb = box
      /\ HasHit(w) => me.isect = ray_aabb_intersect(ray, box)
      /\ me.pc = "done" =>
           me.seg = (IF variant = "later" THEN SegRange(psegs, me.id)
                     ELSE SegRangeEarly(psegs, me.id))

C8_BuffersKept == rays' = rays /\ segs' = segs /\ grid' = grid

C8_OwnRecordOnly ==
  \A w \in Workers :
    wk'[w] # wk[w] => \A v \in Workers \ {w} : wk'[v] = wk[v]

C8_WorkersIndependent ==
  /\ [](\A w \in Workers : C8_Alone(w))
  /\ [][C8_BuffersKept /\ C8_OwnRecordOnly]_vars

\* two workers of one launch have finished, on different rays
C8_Witness ==
  /\ nthreads = NumWorkers
  /\ \A w \in Workers : wk[w].pc = "done"
  /\ \E v, w \in Workers : wk[v].id # wk[w].id

\* C9: for every ray index and axis k, inv_dir[k] is the IEEE quotient 1/dir[k]:
\* a zero of either sign gives the infinity of that sign, an infinity gives the
\* zero of its sign, NaN gives NaN, and any other dir[k] gives the float whose
\* product with dir[k] is 1.
C9_InvDirPlainDivision ==
  \A w \in Workers :
    HasRay(w) =>
      \A k \in 1..3 :
        LET d == wk[w].ray.dir[k]
            v == wk[w].ray.inv_dir[k]
        IN  /\ IsZero(d) => v = FInf(Sgn(d))
            /\ IsInf(d) => v = FZero(Sgn(d))
            /\ IsNaN(d) => IsNaN(v)
            /\ (IsFinite(d) /\ ~IsZero(d)) => (IsFinite(v) /\ FMul(v, d) = F(1))

\* a worker whose ray has a direction component -0 (inverse -infinity) and one
\* +0 (inverse +infinity)
C9_Witness ==
  \E w \in Workers :
    /\ HasRay(w)
    /\ \E k \in 1..3 :
         wk[w].ray.dir[k] = FZero(-1) /\ wk[w].ray.inv_dir[k] = FInf(-1)
    /\ \E k \in 1..3 :
         wk[w].ray.dir[k] = FZero(1) /\ wk[w].ray.inv_dir[k] = FInf(1)

\* C10: in the later variant every count stored in a 32-bit field is the
\* 64-bit extent it was taken from - n_rays, n_edges_per_ray, N, levels,
\* resolution - and n_rays and N are the values the earlier variant stores.
C10_NarrowedCountsExact ==
  variant = "later" =>
    /\ psegs.st = "ok" =>
         /\ segs.chunk_cnts.defined =>
              /\ IntEqBig(psegs.n_rays, Size(segs.chunk_cnts, 0))
              /\ IntEqBig(psegs.n_rays, SegNRaysEarly(segs))
         /\ segs.edges.defined =>
              IntEqBig(psegs.n_edges_per_ray, Size(segs.edges, -1))
    /\ prays.st = "ok" =>
         /\ IntEqBig(prays.N, Size(rays.origins, 0))
         /\ IntEqBig(prays.N, RaysNEarly(rays))
    /\ pgrid.st = "ok" =>
         /\ IntEqBig(pgrid.levels, Size(grid.data, 0))
         /\ \A k \in 1..3 : IntEqBig(pgrid.resolution[k], Size(grid.data, k))

====
